---- MODULE Spec2Model ----
(***************************************************************************)
(* Booking conflict guard of the scheduling system: the appointments and   *)
(* blocked_slots tables with their triggers, CHECK constraints and the     *)
(* partial unique index, createAppointment, and the POST /api/appointments *)
(* handlers that call it.                                                  *)
(*                                                                         *)
(* Instants are seconds since midnight of the model's first day (a         *)
(* Sunday).  An INSERT runs its BEFORE-row triggers on a READ COMMITTED    *)
(* snapshot and later adds the row; other transactions may commit between  *)
(* the two, so each is a step of its own.  Text that the code inspects     *)
(* (error messages searched with String.includes) is kept as a sequence    *)
(* of characters.                                                          *)
(***************************************************************************)
EXTENDS Integers, Sequences, FiniteSets

VARIABLES
  appointments,   \* public.appointments: sequence of rows, a row's id is its index
  blocked_slots,  \* public.blocked_slots: sequence of rows in insertion order
  now,            \* the wall clock (now(), Date.now())
  req,            \* per caller: the booking request in flight, or what the caller
                  \* received in answer to the last one
  booking_token,  \* column booking_token of public.appointments, one entry per
                  \* stored row, followed on its own (see SpecToken)
  tokenInsert,    \* the last INSERT seen from the booking_token column
  slotsCall,      \* one call of generateAvailableSlots: arguments and result
  overlapCall,    \* one pair of intervals put to every overlap test
  whileLoop,      \* the candidate loop of generateAvailableSlots, step by step
  businesses,     \* public.businesses: sequence of rows, a row's id is its index
  businessCall,   \* per browser session: the business id it holds, and its
                  \* createBusiness between the look-up and the INSERT
  validation      \* one proposal put to safeValidateCreateAppointment

\* The variables of the pure functions and of the token column; the booking
\* requests leave them alone
moreVars == <<whileLoop, businesses, businessCall, validation>>

sideVars == <<booking_token, tokenInsert, slotsCall, overlapCall, moreVars>>

vars == <<appointments, blocked_slots, now, req, sideVars>>

----------------------------------------------------------------------------
\* Bounds of the model

MaxAppointments == 2
MaxBlockedSlots == 1

Callers == {"c1", "c2"}
Businesses == {"b1", "b2"}

----------------------------------------------------------------------------
\* Program constants

\* SQL NULL of the nullable column cancelled_at (instants are >= 0)
NULL == -1

MinDurationMinutes == 1
MaxDurationMinutes == 1440
\* 60000 ms of clock-skew tolerance, in seconds
PastToleranceSeconds == 60
SecondsPerMinute == 60

HTTP_CREATED == 201
HTTP_BAD_REQUEST == 400
HTTP_CONFLICT == 409

AppointmentStatus == {"pending", "confirmed", "cancelled", "completed", "no_show"}

\* hh:mm of the model's first day as an instant
HM(h, m) == (h * 60 + m) * SecondsPerMinute

----------------------------------------------------------------------------
\* Texts

\* RAISE EXCEPTION of prevent_appointment_conflicts, ERRCODE P0001
\* Text: Appointment conflict: This time slot overlaps with an existing appointment
MsgAppointmentConflict ==
  <<"A","p","p","o","i","n","t","m","e","n","t"," ","c","o","n","f","l","i","c","t",":"," ",
    "T","h","i","s"," ","t","i","m","e"," ","s","l","o","t"," ","o","v","e","r","l","a","p",
    "s"," ","w","i","t","h"," ","a","n"," ","e","x","i","s","t","i","n","g"," ","a","p","p",
    "o","i","n","t","m","e","n","t">>

\* RAISE EXCEPTION of prevent_appointment_conflicts, ERRCODE P0002
\* Text: Appointment conflict: This time slot is blocked
MsgBlockedConflict ==
  <<"A","p","p","o","i","n","t","m","e","n","t"," ","c","o","n","f","l","i","c","t",":"," ",
    "T","h","i","s"," ","t","i","m","e"," ","s","l","o","t"," ","i","s"," ","b","l","o","c",
    "k","e","d">>

\* PostgreSQL's unique_violation (23505) on idx_appointments_no_overlap
\* Text: duplicate key value violates unique constraint 'idx_appointments_no_overlap'
MsgUniqueViolation ==
  <<"d","u","p","l","i","c","a","t","e"," ","k","e","y"," ","v","a","l","u","e"," ","v","i",
    "o","l","a","t","e","s"," ","u","n","i","q","u","e"," ","c","o","n","s","t","r","a","i",
    "n","t"," ","\"","i","d","x","_","a","p","p","o","i","n","t","m","e","n","t","s","_",
    "n","o","_","o","v","e","r","l","a","p","\"">>

\* PostgreSQL's check_violation (23514) on a CHECK constraint of appointments
\* Text: new row for relation 'appointments' violates check constraint
MsgCheckViolation ==
  <<"n","e","w"," ","r","o","w"," ","f","o","r"," ","r","e","l","a","t","i","o","n"," ",
    "\"","a","p","p","o","i","n","t","m","e","n","t","s","\""," ","v","i","o","l","a","t",
    "e","s"," ","c","h","e","c","k"," ","c","o","n","s","t","r","a","i","n","t">>

\* createAppointment's prefix of a storage error
\* Text: Failed to create appointment: 
MsgCreatePrefix ==
  <<"F","a","i","l","e","d"," ","t","o"," ","c","r","e","a","t","e"," ","a","p","p","o","i",
    "n","t","m","e","n","t",":"," ">>

\* POST's conflict response
\* Text: This time slot is no longer available. Please choose another time.
MsgSlotUnavailable ==
  <<"T","h","i","s"," ","t","i","m","e"," ","s","l","o","t"," ","i","s"," ","n","o"," ","l",
    "o","n","g","e","r"," ","a","v","a","i","l","a","b","l","e","."," ","P","l","e","a","s",
    "e"," ","c","h","o","o","s","e"," ","a","n","o","t","h","e","r"," ","t","i","m","e",
    ".">>

\* POST's validation response (the issue list that follows is left out)
\* Text: Validation failed: 
MsgValidationFailed ==
  <<"V","a","l","i","d","a","t","i","o","n"," ","f","a","i","l","e","d",":"," ">>

\* The older POST's response to an absent or falsy required field
\* Text: Missing required field: 
MsgMissingField ==
  <<"M","i","s","s","i","n","g"," ","r","e","q","u","i","r","e","d"," ","f","i","e","l","d",
    ":"," ">>

\* POST: result.error.includes('conflict')
\* Text: conflict
NeedleConflict ==
  <<"c","o","n","f","l","i","c","t">>

\* POST: result.error.includes('overlaps')
\* Text: overlaps
NeedleOverlaps ==
  <<"o","v","e","r","l","a","p","s">>

\* POST: result.error.includes('blocked')
\* Text: blocked
NeedleBlocked ==
  <<"b","l","o","c","k","e","d">>

----------------------------------------------------------------------------
\* Inputs

\* Request bodies of POST /api/appointments: <<start, end, duration_minutes>>
ProposalShapes ==
  { <<HM(10, 0), HM(11, 0), 60>>,       \* 10:00-11:00
    <<HM(10, 0), HM(10, 30), 30>>,      \* 10:00-10:30, same start
    <<HM(10, 30), HM(11, 30), 60>>,     \* 10:30-11:30, overlaps with another start
    <<HM(11, 0), HM(12, 0), 60>>,       \* 11:00-12:00, back to back
    <<HM(10, 45), HM(10, 15), 30>>,     \* end before start
    <<HM(10, 0), HM(34, 1), 1441>>,     \* 24 h 01 min
    <<HM(10, 0), HM(11, 0), 0>> }       \* duration_minutes 0

\* Every shape for the first business, the first shape for the other
Bodies ==
  { [business_id |-> b, start_time |-> s[1], end_time |-> s[2], duration_minutes |-> s[3]] :
      b \in {"b1"}, s \in ProposalShapes }
  \cup
  { [business_id |-> b, start_time |-> s[1], end_time |-> s[2], duration_minutes |-> s[3]] :
      b \in Businesses \ {"b1"}, s \in {<<HM(10, 0), HM(11, 0), 60>>} }

\* The statuses server code other than the handlers inserts with
DirectStatuses == {"cancelled"}

\* Intervals an owner blocks: <<start, end>>
BlockShapes == { <<HM(10, 0), HM(11, 0)>>, <<HM(12, 0), HM(11, 0)>> }

\* The instants the clock passes through
ClockInstants == <<HM(10, 0) + 30, HM(10, 2)>>

----------------------------------------------------------------------------
\* Rows, results and responses

NoRow ==
  [business_id |-> "", start_time |-> 0, end_time |-> 0, duration_minutes |-> 0,
   status |-> "", cancelled_at |-> NULL]

NoResponse == [status |-> 0, type |-> "", data |-> 0]

Idle == [pc |-> "idle", route |-> "", row |-> NoRow, resp |-> NoResponse]

\* String.prototype.includes
includes(s, sub) ==
  \E i \in 1..(Len(s) - Len(sub) + 1) : SubSeq(s, i, i + Len(sub) - 1) = sub

\* Math.round of a quotient with a positive divisor (halves round up)
MathRound(num, den) == (2 * num + den) \div (2 * den)

Abs(x) == IF x < 0 THEN -x ELSE x

----------------------------------------------------------------------------
\* Storage: triggers, constraints and the unique index of public.appointments

\* The guard's overlap condition between a stored row and NEW
sql_overlap(row, new) ==
  row.start_time < new.end_time /\ row.end_time > new.start_time

\* BEFORE INSERT OR UPDATE trigger; id is NEW.id.  "" when it returns NEW,
\* otherwise the ERRCODE it raises.
prevent_appointment_conflicts(new, id) ==
  IF new.status \in {"cancelled", "no_show"} THEN ""
  ELSE IF \E i \in DOMAIN appointments :
            /\ appointments[i].business_id = new.business_id
            /\ appointments[i].status \notin {"cancelled", "no_show"}
            /\ i # id
            /\ sql_overlap(appointments[i], new)
       THEN "P0001"
  ELSE IF \E j \in DOMAIN blocked_slots :
            /\ blocked_slots[j].business_id = new.business_id
            /\ sql_overlap(blocked_slots[j], new)
       THEN "P0002"
  ELSE ""

\* BEFORE INSERT OR UPDATE OF status trigger; oldStatus is OLD.status, "" on INSERT
set_cancelled_at(new, oldStatus) ==
  LET stamped == IF new.status = "cancelled" /\ new.cancelled_at = NULL
                 THEN [new EXCEPT !.cancelled_at = now]
                 ELSE new
  IN  IF stamped.status # "cancelled" /\ oldStatus = "cancelled"
      THEN [stamped EXCEPT !.cancelled_at = NULL]
      ELSE stamped

valid_time_range(row) == row.end_time > row.start_time

valid_duration(row) ==
  row.duration_minutes > 0 /\ row.duration_minutes <= MaxDurationMinutes

\* A weaker CHECK: a row that is not cancelled may keep a cancellation time
cancelled_at_required_when_cancelled(row) ==
  row.status = "cancelled" => row.cancelled_at # NULL

cancelled_at_only_when_cancelled(row) ==
  \/ row.status = "cancelled" /\ row.cancelled_at # NULL
  \/ row.status # "cancelled" /\ row.cancelled_at = NULL

\* The CHECK constraints of the table
check_constraints(row) ==
  /\ row.status \in AppointmentStatus
  /\ valid_time_range(row)
  /\ valid_duration(row)
  /\ cancelled_at_only_when_cancelled(row)

\* TRUE when the partial unique index on (business_id, start_time) refuses row
idx_appointments_no_overlap(row, id) ==
  /\ row.status \notin {"cancelled", "no_show"}
  /\ \E i \in DOMAIN appointments :
       /\ i # id
       /\ appointments[i].status \notin {"cancelled", "no_show"}
       /\ appointments[i].business_id = row.business_id
       /\ appointments[i].start_time = row.start_time

\* SQLSTATE with which the table refuses to store row, "" when it stores it
constraint_error(row, id) ==
  IF ~check_constraints(row) THEN "23514"
  ELSE IF idx_appointments_no_overlap(row, id) THEN "23505"
  ELSE ""

\* error.message of a refused statement
error_message(sqlstate) ==
  CASE sqlstate = "P0001" -> MsgAppointmentConflict
    [] sqlstate = "P0002" -> MsgBlockedConflict
    [] sqlstate = "23505" -> MsgUniqueViolation
    [] OTHER -> MsgCheckViolation

----------------------------------------------------------------------------
\* Application: validation, createAppointment and the POST handlers

\* createAppointmentSchema.safeParse(body).success: the timing rules
safeValidateCreateAppointment(body) ==
  /\ body.duration_minutes >= MinDurationMinutes
  /\ body.duration_minutes <= MaxDurationMinutes
  /\ body.end_time > body.start_time
  /\ Abs(MathRound(body.end_time - body.start_time, SecondsPerMinute)
         - body.duration_minutes) <= 1
  /\ body.start_time >= now - PastToleranceSeconds

\* The row createAppointment sends to INSERT
insert_values(body, status) ==
  [business_id |-> body.business_id, start_time |-> body.start_time,
   end_time |-> body.end_time, duration_minutes |-> body.duration_minutes,
   status |-> status, cancelled_at |-> NULL]

\* createAppointment's DbResult for an INSERT that ended with sqlstate
DbResult(sqlstate, id) ==
  IF sqlstate = ""
  THEN [success |-> TRUE, error |-> <<>>, data |-> id]
  ELSE [success |-> FALSE, error |-> MsgCreatePrefix \o error_message(sqlstate), data |-> 0]

isConflictError(error) ==
  \/ includes(error, NeedleConflict)
  \/ includes(error, NeedleOverlaps)
  \/ includes(error, NeedleBlocked)

\* Steps 3 and 4 of POST: the response to createAppointment's result
POST_response(result) ==
  IF ~result.success
  THEN IF isConflictError(result.error)
       THEN [status |-> HTTP_CONFLICT, type |-> "SLOT_UNAVAILABLE",
             error |-> MsgSlotUnavailable, data |-> 0]
       ELSE [status |-> HTTP_BAD_REQUEST, type |-> "DATABASE_ERROR",
             error |-> result.error, data |-> 0]
  ELSE [status |-> HTTP_CREATED, type |-> "", error |-> <<>>, data |-> result.data]

\* The older POST's response to createAppointment's result
POST_unvalidated_response(result) ==
  IF ~result.success
  THEN [status |-> HTTP_BAD_REQUEST, type |-> "", error |-> result.error, data |-> 0]
  ELSE [status |-> HTTP_CREATED, type |-> "", error |-> <<>>, data |-> result.data]

\* POST's response to a body the schema refuses
validation_response ==
  [status |-> HTTP_BAD_REQUEST, type |-> "VALIDATION", error |-> MsgValidationFailed,
   data |-> 0]

\* The older POST's response to a body without a required field
missing_field_response ==
  [status |-> HTTP_BAD_REQUEST, type |-> "", error |-> MsgMissingField, data |-> 0]

\* What a caller keeps of a response: its HTTP status, its type and the id of
\* the appointment in it
received(response) ==
  [status |-> response.status, type |-> response.type, data |-> response.data]

\* What the caller of createAppointment itself gets: the DbResult
direct_response(result) ==
  [status |-> 0, type |-> IF result.success THEN "success" ELSE "error",
   error |-> result.error, data |-> result.data]

respond(route, result) ==
  CASE route = "POST" -> POST_response(result)
    [] route = "POST_unvalidated" -> POST_unvalidated_response(result)
    [] OTHER -> direct_response(result)

----------------------------------------------------------------------------
\* The booking_token column

\* Values of replace(gen_random_uuid()::text || gen_random_uuid()::text, '-', '')
BookingTokens == {"t1", "t2", "t3", "t4"}

\* SQL NULL in the booking_token column of an INSERT that names no token
NoToken == ""

NoTokenInsert == [supplied |-> NoToken, generated |-> NoToken, sqlstate |-> ""]

\* A trigger function that keeps a token the client supplied
generate_booking_token_ifMissing(supplied, generated) ==
  IF supplied = NoToken THEN generated ELSE supplied

\* NEW.booking_token after the BEFORE INSERT trigger: generated is what the two
\* gen_random_uuid() calls returned
generate_booking_token(supplied, generated) == generated

\* booking_token TEXT NOT NULL UNIQUE, for the row id (0: a row not yet stored)
booking_token_key(token, id) ==
  \A i \in DOMAIN booking_token : i # id => booking_token[i] # token

\* SQLSTATE of the column's constraints
booking_token_error(token, id) ==
  IF token = NoToken THEN "23502"
  ELSE IF ~booking_token_key(token, id) THEN "23505"
  ELSE ""

----------------------------------------------------------------------------
\* Dates (date-fns and Date), in seconds; day 0 of the model is a Sunday

SecondsPerHour == 3600
SecondsPerDay == 86400
HoursPerDay == 24

\* The instant hh:mm:ss of day d
T(d, hh, mm, ss) ==
  d * SecondsPerDay + hh * SecondsPerHour + mm * SecondsPerMinute + ss

isBefore(date, dateToCompare) == date < dateToCompare
isAfter(date, dateToCompare) == date > dateToCompare

\* Date.prototype.getHours, getMinutes
getHours(date) == (date % SecondsPerDay) \div SecondsPerHour
getMinutes(date) == (date % SecondsPerHour) \div SecondsPerMinute

\* setHours and setMinutes replace one field and keep every other field of
\* the date, its seconds too
setHours(date, hours) == date + (hours - getHours(date)) * SecondsPerHour
setMinutes(date, minutes) == date + (minutes - getMinutes(date)) * SecondsPerMinute

addMinutes(date, amount) == date + amount * SecondsPerMinute

getDay(date) == (date \div SecondsPerDay) % 7

\* A getDayOfWeekName whose table starts the week on Monday
getDayOfWeekName_mondayFirst(date) ==
  <<"monday", "tuesday", "wednesday", "thursday", "friday", "saturday",
    "sunday">>[getDay(date) + 1]

getDayOfWeekName(date) ==
  <<"sunday", "monday", "tuesday", "wednesday", "thursday", "friday",
    "saturday">>[getDay(date) + 1]

\* Number(text) of a text of decimal digits
RECURSIVE Number(_)
Number(text) ==
  IF text = <<>> THEN 0
  ELSE LET last == text[Len(text)]
           digit == CHOOSE n \in 0..9 :
                      <<"0", "1", "2", "3", "4", "5", "6", "7", "8", "9">>[n + 1] = last
       IN  10 * Number(SubSeq(text, 1, Len(text) - 1)) + digit

\* timeStr.split(':').map(Number) of an "HH:mm" text
parseTimeString(timeStr) ==
  LET colon == CHOOSE i \in 1..Len(timeStr) : timeStr[i] = ":"
  IN  <<Number(SubSeq(timeStr, 1, colon - 1)),
        Number(SubSeq(timeStr, colon + 1, Len(timeStr)))>>

----------------------------------------------------------------------------
\* The availability calculator

\* An overlap test on closed intervals
hasTimeOverlap_closed(start1, end1, start2, end2) ==
  ~isAfter(start1, end2) /\ ~isAfter(start2, end1)

hasTimeOverlap(start1, end1, start2, end2) ==
  isBefore(start1, end2) /\ isBefore(start2, end1)

isSlotDuringBreakTime(slotStart, slotEnd, breakTimes) ==
  \E i \in DOMAIN breakTimes :
    LET breakStartHM == parseTimeString(breakTimes[i].start)
        breakEndHM == parseTimeString(breakTimes[i].end)
        breakStart == setMinutes(setHours(slotStart, breakStartHM[1]), breakStartHM[2])
        breakEnd == setMinutes(setHours(slotStart, breakEndHM[1]), breakEndHM[2])
    IN  hasTimeOverlap(slotStart, slotEnd, breakStart, breakEnd)

\* A check that counts confirmed appointments only
hasConflictWithAppointments_confirmedOnly(slotStart, slotEnd, existingAppointments) ==
  \E i \in DOMAIN existingAppointments :
    /\ existingAppointments[i].status = "confirmed"
    /\ hasTimeOverlap(slotStart, slotEnd, existingAppointments[i].start_time,
                      existingAppointments[i].end_time)

hasConflictWithAppointments_anyStatus(slotStart, slotEnd, existingAppointments) ==
  \E i \in DOMAIN existingAppointments :
    hasTimeOverlap(slotStart, slotEnd, existingAppointments[i].start_time,
                   existingAppointments[i].end_time)

hasConflictWithAppointments(slotStart, slotEnd, existingAppointments) ==
  \E i \in DOMAIN existingAppointments :
    /\ existingAppointments[i].status \in {"pending", "confirmed"}
    /\ hasTimeOverlap(slotStart, slotEnd, existingAppointments[i].start_time,
                      existingAppointments[i].end_time)

hasConflictWithBlockedSlots(slotStart, slotEnd, blockedSlots) ==
  \E i \in DOMAIN blockedSlots :
    hasTimeOverlap(slotStart, slotEnd, blockedSlots[i].start_time,
                   blockedSlots[i].end_time)

\* A lower bound that takes the minutes for seconds
minBookingTime_inSeconds(business, currentTime) ==
  currentTime + business.min_advance_booking_minutes

\* A lower bound on the wrong side of the current time
minBookingTime_subtracted(business, currentTime) ==
  currentTime - business.min_advance_booking_minutes * SecondsPerMinute

minBookingTime(business, currentTime) ==
  currentTime + business.min_advance_booking_minutes * SecondsPerMinute

maxBookingTime(business, currentTime) ==
  currentTime + business.max_advance_booking_days * HoursPerDay * SecondsPerHour

\* The filters of one candidate slot
passesAllFilters(business, currentSlotStart, currentSlotEnd, existingAppointments, blockedSlots, currentTime) ==
  /\ ~isBefore(currentSlotEnd, currentTime)
  /\ ~isBefore(currentSlotStart, minBookingTime(business, currentTime))
  /\ ~isAfter(currentSlotStart, maxBookingTime(business, currentTime))
  /\ ~isSlotDuringBreakTime(currentSlotStart, currentSlotEnd, business.break_times)
  /\ ~hasConflictWithAppointments(currentSlotStart, currentSlotEnd, existingAppointments)
  /\ ~hasConflictWithBlockedSlots(currentSlotStart, currentSlotEnd, blockedSlots)

\* The parameter now = new Date(): the clock when the caller passes none
nowArgument_clock(supplied, clock) == clock

nowArgument(supplied, clock) == IF supplied = NULL THEN clock ELSE supplied

generateAvailableSlots(business, date, existingAppointments, blockedSlots, currentTime) ==
  IF getDayOfWeekName(date) \notin business.available_days THEN <<>>
  ELSE
    LET startHM == parseTimeString(business.available_hours.start)
        endHM == parseTimeString(business.available_hours.end)
        dayEndTime == setMinutes(setHours(date, endHM[1]), endHM[2])
        slotDuration == business.slot_duration_minutes
        RECURSIVE while(_)
        while(currentSlotStart) ==
          IF ~isBefore(currentSlotStart, dayEndTime) THEN <<>>
          ELSE
            LET currentSlotEnd == addMinutes(currentSlotStart, slotDuration)
                fits == isBefore(currentSlotEnd, dayEndTime) \/ currentSlotEnd = dayEndTime
                kept == fits /\ passesAllFilters(business, currentSlotStart,
                                                 currentSlotEnd, existingAppointments,
                                                 blockedSlots, currentTime)
            IN  (IF kept THEN <<[start |-> currentSlotStart, end |-> currentSlotEnd]>>
                         ELSE <<>>)
                  \o while(addMinutes(currentSlotStart, slotDuration))
    IN  while(setMinutes(setHours(date, startHM[1]), startHM[2]))

----------------------------------------------------------------------------
\* Arguments of generateAvailableSlots

WeekDays == {"monday", "tuesday", "wednesday", "thursday", "friday"}

\* "HH:mm" texts
Text0900 == <<"0", "9", ":", "0", "0">>
Text1200 == <<"1", "2", ":", "0", "0">>
Text1230 == <<"1", "2", ":", "3", "0">>
Text1300 == <<"1", "3", ":", "0", "0">>
Text1700 == <<"1", "7", ":", "0", "0">>

\* The column defaults of public.businesses
DefaultBusiness ==
  [available_days |-> WeekDays,
   available_hours |-> [start |-> Text0900, end |-> Text1700],
   break_times |-> <<>>,
   slot_duration_minutes |-> 30,
   min_advance_booking_minutes |-> 0,
   max_advance_booking_days |-> 90]

Schedules ==
  [available_days : {WeekDays, {"sunday"}},
   available_hours : {[start |-> Text0900, end |-> Text1700],
                      [start |-> Text0900, end |-> Text1230],
                      [start |-> Text1700, end |-> Text0900]},
   break_times : {<<>>, <<[start |-> Text1200, end |-> Text1300]>>,
                  <<[start |-> Text1200, end |-> Text1300],
                    [start |-> Text1230, end |-> Text1300]>>},
   slot_duration_minutes : {60, 45},
   min_advance_booking_minutes : {0, 60, 1380},
   max_advance_booking_days : {1, 90}]

\* Monday at midnight, Monday half a minute after midnight, Monday 14:25, and
\* the Sunday after
TargetDates == {T(1, 0, 0, 0), T(1, 0, 0, 30), T(1, 14, 25, 0), T(7, 0, 0, 0)}

\* Sunday 10:00, Monday 08:00, Monday 10:00
CurrentTimes == {T(0, 10, 0, 0), T(1, 8, 0, 0), T(1, 10, 0, 0)}

AppointmentLists ==
  { <<>>,
    <<[start_time |-> T(1, 10, 0, 0), end_time |-> T(1, 11, 0, 0), status |-> "confirmed"]>>,
    <<[start_time |-> T(1, 10, 0, 0), end_time |-> T(1, 11, 0, 0), status |-> "completed"]>>,
    <<[start_time |-> T(1, 10, 30, 0), end_time |-> T(1, 11, 30, 0), status |-> "pending"],
      [start_time |-> T(1, 15, 0, 0), end_time |-> T(1, 16, 0, 0), status |-> "cancelled"]>> }

BlockedSlotLists ==
  { <<>>, <<[start_time |-> T(1, 13, 0, 0), end_time |-> T(1, 15, 0, 0)]>> }

\* What GET /api/slots keeps of the appointments it fetched
activeAppointments(appointmentList) ==
  SelectSeq(appointmentList, LAMBDA apt : apt.status \in {"pending", "confirmed"})

NoSlotsCall ==
  [pc |-> "idle", business |-> DefaultBusiness, date |-> 0,
   existingAppointments |-> <<>>, blockedSlots |-> <<>>, now |-> 0, slots |-> <<>>,
   again |-> <<>>]

----------------------------------------------------------------------------
\* The overlap tests of the client-side slot list (generateTimeSlots)

\* breakTimes hold times of day as {hour, minute}
isSlotDuringBreak(slotStart, slotEnd, breakTimes) ==
  \E i \in DOMAIN breakTimes :
    LET breakStart == setMinutes(setHours(slotStart, breakTimes[i].start.hour),
                                 breakTimes[i].start.minute)
        breakEnd == setMinutes(setHours(slotStart, breakTimes[i].end.hour),
                               breakTimes[i].end.minute)
    IN  \/ isAfter(slotStart, breakStart) /\ isBefore(slotStart, breakEnd)
        \/ isAfter(slotEnd, breakStart) /\ isBefore(slotEnd, breakEnd)
        \/ isBefore(slotStart, breakStart) /\ isAfter(slotEnd, breakEnd)
        \/ slotStart = breakStart

isSlotBooked(slotStart, slotEnd, bookedSlots) ==
  \E i \in DOMAIN bookedSlots :
    \/ isAfter(slotStart, bookedSlots[i].start) /\ isBefore(slotStart, bookedSlots[i].end)
    \/ isAfter(slotEnd, bookedSlots[i].start) /\ isBefore(slotEnd, bookedSlots[i].end)
    \/ isBefore(slotStart, bookedSlots[i].start) /\ isAfter(slotEnd, bookedSlots[i].end)
    \/ slotStart = bookedSlots[i].start

\* Interval ends put to the overlap tests: Monday 09:00, 10:00, 11:00, 12:00
OverlapInstants == { T(1, hh, 0, 0) : hh \in 9..12 }

NoOverlapCall ==
  [pc |-> "idle", start1 |-> 0, end1 |-> 0, start2 |-> 0, end2 |-> 0,
   hasTimeOverlap |-> FALSE, prevent_appointment_conflicts |-> FALSE,
   isSlotBooked |-> FALSE, isSlotDuringBreak |-> FALSE]

----------------------------------------------------------------------------
\* The candidate loop of generateAvailableSlots on a stored schedule

\* CONSTRAINT valid_slot_duration of public.businesses
valid_slot_duration_nonNegative(slot_duration_minutes) ==
  slot_duration_minutes >= 0 /\ slot_duration_minutes <= 1440

valid_slot_duration(slot_duration_minutes) ==
  slot_duration_minutes > 0 /\ slot_duration_minutes <= 1440

\* Values offered to the column slot_duration_minutes
SlotDurations == {-30, 0, 15, 45, 1440}

NoLoop == [pc |-> "idle", currentSlotStart |-> 0, dayEndTime |-> 0, slotDuration |-> 0]

----------------------------------------------------------------------------
\* The configuration path: useAvailability.saveAvailability and the business
\* service

MaxBusinesses == 2

\* Two browser sessions of one user
Sessions == {"s1", "s2"}
userOf(session) == "u1"

DAY_NUMBER_TO_NAME ==
  <<"sunday", "monday", "tuesday", "wednesday", "thursday", "friday", "saturday">>

Digits == <<"0", "1", "2", "3", "4", "5", "6", "7", "8", "9">>

\* Number.prototype.toString of a whole number from 0 to 99
toString(n) ==
  IF n < 10 THEN <<Digits[n + 1]>>
  ELSE <<Digits[(n \div 10) + 1], Digits[(n % 10) + 1]>>

RECURSIVE padStart(_, _, _)
padStart(text, targetLength, padString) ==
  IF Len(text) >= targetLength THEN text
  ELSE padStart(<<padString>> \o text, targetLength, padString)

timeOfDayToString(time) ==
  padStart(toString(time.hour), 2, "0") \o <<":">> \o padStart(toString(time.minute), 2, "0")

isValidTimeOfDay(time) ==
  time.hour >= 0 /\ time.hour <= 23 /\ time.minute >= 0 /\ time.minute <= 59

\* isValid of validateBusinessAvailability (the business name aside)
validateBusinessAvailability(availability) ==
  /\ availability.availableDays # {}
  /\ \A day \in availability.availableDays : day >= 0 /\ day <= 6
  /\ isValidTimeOfDay(availability.availableHours.start)
  /\ isValidTimeOfDay(availability.availableHours.end)
  /\ availability.availableHours.start.hour * 60 + availability.availableHours.start.minute
       < availability.availableHours.end.hour * 60 + availability.availableHours.end.minute
  /\ \A idx \in DOMAIN availability.breakTimes :
       LET breakTime == availability.breakTimes[idx]
       IN  /\ isValidTimeOfDay(breakTime.start)
           /\ isValidTimeOfDay(breakTime.end)
           /\ breakTime.start.hour * 60 + breakTime.start.minute
                < breakTime.end.hour * 60 + breakTime.end.minute

\* The row sent to INSERT and to UPDATE; finalConfig of saveAvailability has
\* slotDuration 60 and leaves the advance-booking columns to their defaults
businessAvailabilityToDb(availability, ownerId) ==
  [owner_id |-> ownerId,
   available_days |-> { DAY_NUMBER_TO_NAME[dayNum + 1] : dayNum \in availability.availableDays },
   available_hours |-> [start |-> timeOfDayToString(availability.availableHours.start),
                        end |-> timeOfDayToString(availability.availableHours.end)],
   break_times |-> [i \in DOMAIN availability.breakTimes |->
                      [start |-> timeOfDayToString(availability.breakTimes[i].start),
                       end |-> timeOfDayToString(availability.breakTimes[i].end)]],
   slot_duration_minutes |-> 60,
   min_advance_booking_minutes |-> 0,
   max_advance_booking_days |-> 90,
   is_active |-> TRUE]

activeBusinessesOf(userId) ==
  { id \in DOMAIN businesses :
      businesses[id].owner_id = userId /\ businesses[id].is_active }

\* The id of the user's active business, or NULL.  maybeSingle() gives data
\* null for no row and error PGRST116 for more than one row, and the function
\* returns null for both
fetchUserBusiness(userId) ==
  IF Cardinality(activeBusinessesOf(userId)) = 1
    THEN CHOOSE id \in activeBusinessesOf(userId) : TRUE
    ELSE NULL

TimeOfDay(hh, mm) == [hour |-> hh, minute |-> mm]

\* What the availability form submits: 09:00-17:00 with a break 12:00-13:00;
\* hours that end before they start; a break 12:00-13:00 that runs past the
\* end of the hours 09:00-12:30; and two breaks that overlap each other
Availabilities ==
  { [availableDays |-> 1..5,
     availableHours |-> [start |-> TimeOfDay(9, 0), end |-> TimeOfDay(17, 0)],
     breakTimes |-> <<[start |-> TimeOfDay(12, 0), end |-> TimeOfDay(13, 0)]>>],
    [availableDays |-> 1..5,
     availableHours |-> [start |-> TimeOfDay(17, 0), end |-> TimeOfDay(9, 0)],
     breakTimes |-> <<>>],
    [availableDays |-> 1..5,
     availableHours |-> [start |-> TimeOfDay(9, 0), end |-> TimeOfDay(12, 30)],
     breakTimes |-> <<[start |-> TimeOfDay(12, 0), end |-> TimeOfDay(13, 0)]>>],
    [availableDays |-> 1..5,
     availableHours |-> [start |-> TimeOfDay(9, 0), end |-> TimeOfDay(17, 0)],
     breakTimes |-> <<[start |-> TimeOfDay(12, 0), end |-> TimeOfDay(13, 0)],
                      [start |-> TimeOfDay(12, 30), end |-> TimeOfDay(13, 0)]>>] }

NoAvailability == [availableDays |-> {}, availableHours |-> <<>>, breakTimes |-> <<>>]

\* A session that holds no business id and has saved nothing
NoBusinessCall ==
  [pc |-> "idle", businessId |-> NULL, newAvailability |-> NoAvailability,
   existing |-> NULL, outcome |-> ""]

\* Lengths of proposed intervals, in seconds, around the ends of the allowed
\* range: none, 1 s, 29 s, 30 s, a minute, an hour, 24 h, and 24 h with 60,
\* 89 and 90 s more; one interval that ends a minute before it starts
IntervalSeconds ==
  {-60, 0, 1, 29, 30, 60, 3600, 86400, 86400 + 60, 86400 + 89, 86400 + 90}

Durations == {0, 1, 2, 60, 1439, 1440, 1441}

NoValidation ==
  [pc |-> "idle", start_time |-> 0, end_time |-> 0, duration_minutes |-> 0,
   success |-> FALSE]

moreVarsIdle ==
  /\ whileLoop = NoLoop
  /\ businesses = <<>>
  /\ businessCall = [session \in Sessions |-> NoBusinessCall]
  /\ validation = NoValidation

----------------------------------------------------------------------------
\* GET /api/slots on the stored rows

startOfDay(date) == date - (date % SecondsPerDay)
endOfDay(date) == startOfDay(date) + SecondsPerDay - 1

\* The rows of public.businesses: the first business is open every day from
\* 09:00 to 17:00 with one-hour slots, the others keep the column defaults
getBusinessById(businessId) ==
  IF businessId = "b1"
    THEN [DefaultBusiness EXCEPT
            !.available_days = WeekDays \cup {"saturday", "sunday"},
            !.slot_duration_minutes = 60]
    ELSE DefaultBusiness

\* Rows are selected by their start_time alone (ORDER BY start_time does not
\* matter to the tests made on the list)
getAppointmentsForBusiness(businessId, startDate, endDate) ==
  SelectSeq(appointments,
            LAMBDA row : /\ row.business_id = businessId
                         /\ row.start_time >= startDate
                         /\ row.start_time <= endDate)

getBlockedSlotsForBusiness(businessId, startDate, endDate) ==
  SelectSeq(blocked_slots,
            LAMBDA row : /\ row.business_id = businessId
                         /\ row.start_time >= startDate
                         /\ row.start_time <= endDate)

\* availableSlots of the handler: it passes no now
GET_slots(businessId, date) ==
  generateAvailableSlots(
    getBusinessById(businessId), date,
    activeAppointments(getAppointmentsForBusiness(businessId, startOfDay(date),
                                                  endOfDay(date))),
    getBlockedSlotsForBusiness(businessId, startOfDay(date), endOfDay(date)),
    nowArgument(NULL, now))

----------------------------------------------------------------------------
\* Actions

inFlight(p) == req[p].pc \in {"triggers", "insert"}

\* Room for one more row, counting the inserts already under way
roomForInsert ==
  Len(appointments) + Cardinality({q \in Callers : inFlight(q)}) < MaxAppointments

Init ==
  /\ appointments = <<>>
  /\ blocked_slots = <<>>
  /\ now = ClockInstants[1]
  /\ req = [p \in Callers |-> Idle]
  /\ booking_token = <<>>
  /\ tokenInsert = NoTokenInsert
  /\ slotsCall = NoSlotsCall
  /\ overlapCall = NoOverlapCall
  /\ moreVarsIdle

\* POST /api/appointments up to the call of createAppointment
POST(p, body) ==
  /\ ~inFlight(p)
  /\ roomForInsert
  /\ req' = [req EXCEPT ![p] =
       IF ~safeValidateCreateAppointment(body)
       THEN [pc |-> "done", route |-> "", row |-> NoRow,
             resp |-> received(validation_response)]
       ELSE [pc |-> "triggers", route |-> "POST",
             row |-> insert_values(body, "confirmed"), resp |-> NoResponse]]
  /\ UNCHANGED <<appointments, blocked_slots, now, sideVars>>

\* The older POST /api/appointments up to the call of createAppointment
POST_unvalidated(p, body) ==
  /\ ~inFlight(p)
  /\ roomForInsert
  /\ req' = [req EXCEPT ![p] =
       IF body.duration_minutes = 0
       THEN [pc |-> "done", route |-> "", row |-> NoRow,
             resp |-> received(missing_field_response)]
       ELSE [pc |-> "triggers", route |-> "POST_unvalidated",
             row |-> insert_values(body, "pending"), resp |-> NoResponse]]
  /\ UNCHANGED <<appointments, blocked_slots, now, sideVars>>

\* createAppointment called by server code with a status of its own
createAppointment(p, body, status) ==
  /\ ~inFlight(p)
  /\ roomForInsert
  /\ req' = [req EXCEPT ![p] =
       [pc |-> "triggers", route |-> "createAppointment",
        row |-> insert_values(body, status), resp |-> NoResponse]]
  /\ UNCHANGED <<appointments, blocked_slots, now, sideVars>>

\* The request of p ends with the statement's sqlstate
finish(p, sqlstate, id) ==
  [pc |-> "done", route |-> "", row |-> NoRow,
   resp |-> received(respond(req[p].route, DbResult(sqlstate, id)))]

\* INSERT, first half: the BEFORE INSERT row triggers, on the rows committed so far
BeforeInsertTriggers(p) ==
  /\ req[p].pc = "triggers"
  /\ LET new == req[p].row
         raised == prevent_appointment_conflicts(new, 0)
     IN  req' = [req EXCEPT ![p] =
           IF raised # ""
           THEN finish(p, raised, 0)
           ELSE [req[p] EXCEPT !.pc = "insert", !.row = set_cancelled_at(new, "")]]
  /\ UNCHANGED <<appointments, blocked_slots, now, sideVars>>

\* INSERT, second half: constraints, the unique index, and the row is stored
\* An insert whose refused row is not rolled back
InsertRow_withoutRollback(p) ==
  /\ req[p].pc = "insert"
  /\ LET new == req[p].row
         id == Len(appointments) + 1
         refused == constraint_error(new, id)
     IN  /\ appointments' = Append(appointments, new)
         /\ req' = [req EXCEPT ![p] = finish(p, refused, id)]
  /\ UNCHANGED <<blocked_slots, now, sideVars>>

InsertRow(p) ==
  /\ req[p].pc = "insert"
  /\ LET new == req[p].row
         id == Len(appointments) + 1
         refused == constraint_error(new, id)
     IN  /\ appointments' = IF refused = "" THEN Append(appointments, new) ELSE appointments
         /\ req' = [req EXCEPT ![p] = finish(p, refused, id)]
  /\ UNCHANGED <<blocked_slots, now, sideVars>>

\* NEW of UPDATE appointments SET ...: "unset" leaves a column out of the SET list
update_values(old, setStatus, setCancelledAt) ==
  [old EXCEPT
     !.status = IF setStatus = "unset" THEN @ ELSE setStatus,
     !.cancelled_at = CASE setCancelledAt = "unset" -> @
                        [] setCancelledAt = "null" -> NULL
                        [] OTHER -> now]

\* SQLSTATE and stored row of one UPDATE of row id
update_result(id, setStatus, setCancelledAt) ==
  LET old == appointments[id]
      new == update_values(old, setStatus, setCancelledAt)
      raised == prevent_appointment_conflicts(new, id)
      fired == IF setStatus = "unset" THEN new ELSE set_cancelled_at(new, old.status)
      refused == IF raised # "" THEN raised ELSE constraint_error(fired, id)
  IN  [sqlstate |-> refused, row |-> IF refused = "" THEN fired ELSE old]

\* UPDATE public.appointments SET status and/or cancelled_at WHERE id = ...
UpdateAppointment(id, setStatus, setCancelledAt) ==
  /\ id \in DOMAIN appointments
  /\ ~(setStatus = "unset" /\ setCancelledAt = "unset")
  /\ LET r == update_result(id, setStatus, setCancelledAt)
     IN  appointments' = [appointments EXCEPT ![id] = r.row]
  /\ UNCHANGED <<blocked_slots, now, req, sideVars>>

valid_blocked_time_range(row) == row.end_time > row.start_time

\* INSERT INTO public.blocked_slots
CreateBlockedSlot(b, shape) ==
  /\ Len(blocked_slots) < MaxBlockedSlots
  /\ LET row == [business_id |-> b, start_time |-> shape[1], end_time |-> shape[2]]
     IN  blocked_slots' = IF valid_blocked_time_range(row)
                          THEN Append(blocked_slots, row)
                          ELSE blocked_slots
  /\ UNCHANGED <<appointments, now, req, sideVars>>

\* DELETE FROM public.blocked_slots WHERE id = ...
DeleteBlockedSlot(j) ==
  /\ j \in DOMAIN blocked_slots
  /\ blocked_slots' = [k \in 1..(Len(blocked_slots) - 1) |->
                         IF k < j THEN blocked_slots[k] ELSE blocked_slots[k + 1]]
  /\ UNCHANGED <<appointments, now, req, sideVars>>

\* Time passes
Tick ==
  /\ \E k \in 1..(Len(ClockInstants) - 1) :
       now = ClockInstants[k] /\ now' = ClockInstants[k + 1]
  /\ UNCHANGED <<appointments, blocked_slots, req, sideVars>>

Next ==
  \/ \E p \in Callers, body \in Bodies : POST(p, body)
  \/ \E p \in Callers, body \in Bodies : POST_unvalidated(p, body)
  \/ \E p \in Callers, body \in Bodies, status \in DirectStatuses :
       createAppointment(p, body, status)
  \/ \E p \in Callers : BeforeInsertTriggers(p)
  \/ \E p \in Callers : InsertRow(p)
  \/ \E id \in 1..MaxAppointments, s \in AppointmentStatus \cup {"unset"},
        c \in {"unset", "null", "now"} : UpdateAppointment(id, s, c)
  \/ \E b \in Businesses, shape \in BlockShapes : CreateBlockedSlot(b, shape)
  \/ \E j \in 1..MaxBlockedSlots : DeleteBlockedSlot(j)
  \/ Tick

Spec == Init /\ [][Next]_vars

\* One statement at a time: nobody starts a request or writes to storage while
\* a request is in flight
quiet == \A q \in Callers : ~inFlight(q)

NextSeq ==
  \/ \E p \in Callers, body \in Bodies : quiet /\ POST(p, body)
  \/ \E p \in Callers, body \in Bodies : quiet /\ POST_unvalidated(p, body)
  \/ \E p \in Callers, body \in Bodies, status \in DirectStatuses :
       quiet /\ createAppointment(p, body, status)
  \/ \E p \in Callers : BeforeInsertTriggers(p)
  \/ \E p \in Callers : InsertRow(p)
  \/ \E id \in 1..MaxAppointments, s \in AppointmentStatus \cup {"unset"},
        c \in {"unset", "null", "now"} : quiet /\ UpdateAppointment(id, s, c)
  \/ \E b \in Businesses, shape \in BlockShapes : quiet /\ CreateBlockedSlot(b, shape)
  \/ \E j \in 1..MaxBlockedSlots : quiet /\ DeleteBlockedSlot(j)
  \/ quiet /\ Tick

SpecSeq == Init /\ [][NextSeq]_vars

----------------------------------------------------------------------------
\* The booking_token column under INSERT and UPDATE

\* INSERT INTO public.appointments: the trigger sets the token, then the
\* column's constraints accept or refuse the row
InsertBookingToken(supplied, generated) ==
  /\ Len(booking_token) < MaxAppointments
  /\ LET token == generate_booking_token(supplied, generated)
         refused == booking_token_error(token, 0)
     IN  /\ booking_token' = IF refused = "" THEN Append(booking_token, token)
                                              ELSE booking_token
         /\ tokenInsert' = [supplied |-> supplied, generated |-> generated,
                            sqlstate |-> refused]
  /\ UNCHANGED <<appointments, blocked_slots, now, req, slotsCall, overlapCall,
                 moreVars>>

\* UPDATE public.appointments SET booking_token = token WHERE id = ...: no
\* trigger sets the token, the column's constraints accept or refuse it
UpdateBookingToken(id, token) ==
  /\ id \in DOMAIN booking_token
  /\ booking_token' = IF booking_token_error(token, id) = ""
                         THEN [booking_token EXCEPT ![id] = token]
                         ELSE booking_token
  /\ UNCHANGED <<appointments, blocked_slots, now, req, tokenInsert, slotsCall,
                 overlapCall, moreVars>>

NextToken ==
  \/ \E supplied \in BookingTokens \cup {NoToken}, generated \in BookingTokens :
       InsertBookingToken(supplied, generated)
  \/ \E id \in 1..MaxAppointments, token \in BookingTokens \cup {NoToken} :
       UpdateBookingToken(id, token)

SpecToken == Init /\ [][NextToken]_vars

----------------------------------------------------------------------------
\* Calls of generateAvailableSlots

InitSlots ==
  /\ appointments = <<>>
  /\ blocked_slots = <<>>
  /\ now = ClockInstants[1]
  /\ req = [p \in Callers |-> Idle]
  /\ booking_token = <<>>
  /\ tokenInsert = NoTokenInsert
  /\ overlapCall = NoOverlapCall
  /\ moreVarsIdle
  /\ \E business \in Schedules, date \in TargetDates,
        existingAppointments \in AppointmentLists,
        blockedSlots \in BlockedSlotLists, currentTime \in CurrentTimes :
       slotsCall = [pc |-> "called", business |-> business, date |-> date,
                    existingAppointments |-> existingAppointments,
                    blockedSlots |-> blockedSlots, now |-> currentTime,
                    slots |-> <<>>, again |-> <<>>]

\* The call returns.  The function has two return statements and no throw; it
\* assigns to no argument and calls no mutating method on one (setHours,
\* setMinutes and addMinutes of date-fns return new Dates, push goes to the
\* local array).  The clock is read only for an omitted now.
ReturnSlots ==
  /\ slotsCall.pc = "called"
  /\ \E clock \in CurrentTimes :
       slotsCall' = [slotsCall EXCEPT
         !.pc = "returned",
         !.slots = generateAvailableSlots(slotsCall.business, slotsCall.date,
                                          slotsCall.existingAppointments,
                                          slotsCall.blockedSlots,
                                          nowArgument(slotsCall.now, clock))]
  /\ UNCHANGED <<appointments, blocked_slots, now, req, booking_token, tokenInsert,
                 overlapCall, moreVars>>

\* A second call with the same argument objects, at any later clock
ReturnSlotsAgain ==
  /\ slotsCall.pc = "returned"
  /\ \E clock \in CurrentTimes :
       slotsCall' = [slotsCall EXCEPT
         !.pc = "returned twice",
         !.again = generateAvailableSlots(slotsCall.business, slotsCall.date,
                                          slotsCall.existingAppointments,
                                          slotsCall.blockedSlots,
                                          nowArgument(slotsCall.now, clock))]
  /\ UNCHANGED <<appointments, blocked_slots, now, req, booking_token, tokenInsert,
                 overlapCall, moreVars>>

NextSlots == ReturnSlots \/ ReturnSlotsAgain

SpecSlots == InitSlots /\ [][NextSlots]_vars

----------------------------------------------------------------------------
\* One pair of intervals put to every overlap test of the system

InitOverlap ==
  /\ appointments = <<>>
  /\ blocked_slots = <<>>
  /\ now = ClockInstants[1]
  /\ req = [p \in Callers |-> Idle]
  /\ booking_token = <<>>
  /\ tokenInsert = NoTokenInsert
  /\ slotsCall = NoSlotsCall
  /\ moreVarsIdle
  /\ \E start1 \in OverlapInstants, end1 \in OverlapInstants,
        start2 \in OverlapInstants, end2 \in OverlapInstants :
       overlapCall = [NoOverlapCall EXCEPT !.pc = "called",
                        !.start1 = start1, !.end1 = end1,
                        !.start2 = start2, !.end2 = end2]

\* The first interval is the slot (the new row of the guard); the second is
\* the stored appointment, the booked slot, and the break
CompareOverlap ==
  /\ overlapCall.pc = "called"
  /\ LET c == overlapCall
         stored == [business_id |-> "b1", start_time |-> c.start2, end_time |-> c.end2]
         new == [business_id |-> "b1", start_time |-> c.start1, end_time |-> c.end1]
         booked == <<[start |-> c.start2, end |-> c.end2]>>
         breaks == <<[start |-> [hour |-> getHours(c.start2), minute |-> getMinutes(c.start2)],
                      end |-> [hour |-> getHours(c.end2), minute |-> getMinutes(c.end2)]]>>
     IN  overlapCall' = [c EXCEPT
           !.pc = "compared",
           !.hasTimeOverlap = hasTimeOverlap(c.start1, c.end1, c.start2, c.end2),
           !.prevent_appointment_conflicts = sql_overlap(stored, new),
           !.isSlotBooked = isSlotBooked(c.start1, c.end1, booked),
           !.isSlotDuringBreak = isSlotDuringBreak(c.start1, c.end1, breaks)]
  /\ UNCHANGED <<appointments, blocked_slots, now, req, booking_token, tokenInsert,
                 slotsCall, moreVars>>

NextOverlap == CompareOverlap

SpecOverlap == InitOverlap /\ [][NextOverlap]_vars

----------------------------------------------------------------------------
\* Vocabulary of the properties

\* Half-open intervals [a1, a2) and [b1, b2) overlap
overlaps(a1, a2, b1, b2) == a1 < b2 /\ b1 < a2

\* An active appointment: pending or confirmed
active(row) == row.status \in {"pending", "confirmed"}

rowsOverlap(r1, r2) ==
  /\ r1.business_id = r2.business_id
  /\ overlaps(r1.start_time, r1.end_time, r2.start_time, r2.end_time)

\* row collides with an active appointment or a blocked slot of its business
collidesWithAppointment(row) ==
  \E i \in DOMAIN appointments : active(appointments[i]) /\ rowsOverlap(appointments[i], row)

collidesWithBlock(row) ==
  \E j \in DOMAIN blocked_slots : rowsOverlap(blocked_slots[j], row)

collides(row) == collidesWithAppointment(row) \/ collidesWithBlock(row)

\* A booking attempt: a request of one of the POST handlers
isBooking(r) == r.route \in {"POST", "POST_unvalidated"}

\* The interval and duration of row are well formed
validShape(row) ==
  /\ row.end_time > row.start_time
  /\ row.duration_minutes >= MinDurationMinutes
  /\ row.duration_minutes <= MaxDurationMinutes

accepted(resp) == resp.status = HTTP_CREATED \/ resp.type = "success"

\* This step ends the request of p
completes(p) == inFlight(p) /\ req'[p].pc = "done"

----------------------------------------------------------------------------
\* C1: of two concurrent bookings of overlapping intervals for one business,
\* exactly one succeeds: a booking that passed its conflict check and reaches
\* the table after a concurrent caller's overlapping booking was accepted is
\* rejected, whether the two start at the same instant or not.
C1_ConcurrentOverlapOneSucceeds ==
  [][\A p \in Callers :
       ( /\ req[p].pc = "insert"
         /\ isBooking(req[p])
         /\ \E q \in Callers \ {p} :
              /\ accepted(req[q].resp)
              /\ req[q].resp.data \in DOMAIN appointments
              /\ active(appointments[req[q].resp.data])
              /\ rowsOverlap(appointments[req[q].resp.data], req[p].row)
         /\ completes(p) )
       => ~accepted(req'[p].resp)]_vars

\* C2: in every reachable state no two active appointments of one business
\* overlap.
C2_NoActiveOverlap ==
  \A i, j \in DOMAIN appointments :
    (i < j /\ active(appointments[i]) /\ active(appointments[j]))
      => ~rowsOverlap(appointments[i], appointments[j])

\* C3: in every reachable state no active appointment overlaps a blocked slot
\* of its business.
C3_NoActiveOverlapsBlock ==
  \A i \in DOMAIN appointments :
    active(appointments[i]) => ~collidesWithBlock(appointments[i])

\* C4: with one statement at a time, a well-formed proposal is accepted if and
\* only if it overlaps no active appointment and no blocked slot of its
\* business.
C4_AcceptedIffNoCollision ==
  [][\A p \in Callers :
       (completes(p) /\ isBooking(req[p]) /\ validShape(req[p].row))
       => (accepted(req'[p].resp) <=> ~collides(req[p].row))]_vars

\* C5: with one statement at a time, a well-formed proposal that overlaps
\* appointments of its business only if they are cancelled, no_show or
\* completed, and overlaps no blocked slot, is accepted.
C5_InertOverlapAccepted ==
  [][\A p \in Callers :
       ( /\ completes(p) /\ isBooking(req[p]) /\ validShape(req[p].row)
         /\ ~collides(req[p].row)
         /\ \E i \in DOMAIN appointments :
              /\ appointments[i].status \in {"cancelled", "no_show", "completed"}
              /\ rowsOverlap(appointments[i], req[p].row) )
       => accepted(req'[p].resp)]_vars

\* C6: a rejection for a conflict tells the caller which kind of conflict it
\* was: the response to a proposal refused for overlapping an appointment
\* differs from the response the same handler gives to a proposal refused for
\* overlapping a blocked slot.
C6_DistinctConflictKinds ==
  \A p \in Callers :
    (req[p].pc = "triggers" /\ isBooking(req[p])) =>
      LET raised == prevent_appointment_conflicts(req[p].row, 0)
          other == IF raised = "P0001" THEN "P0002" ELSE "P0001"
      IN  raised # "" =>
            respond(req[p].route, DbResult(raised, 0))
              # respond(req[p].route, DbResult(other, 0))

\* C7: whenever storage refuses the insert of the validating booking handler
\* because the proposal collides with an active appointment or a blocked
\* slot, whether the trigger or the unique index refuses it, the response is
\* 409 with type SLOT_UNAVAILABLE.
C7_CollisionRefusalIsSlotUnavailable ==
  [][\A p \in Callers :
       ( /\ completes(p) /\ req[p].route = "POST"
         /\ collides(req[p].row)
         /\ ~accepted(req'[p].resp) )
       => ( /\ req'[p].resp.status = HTTP_CONFLICT
            /\ req'[p].resp.type = "SLOT_UNAVAILABLE" )]_vars

\* C8: a booking proposal reaches storage only if its end is after its start,
\* its duration is an integer from 1 to 1440 minutes and its start is not in
\* the past beyond the tolerance.
C8_InvalidShapeNeverReachesStorage ==
  [][\A p \in Callers :
       (~inFlight(p) /\ inFlight(p)' /\ isBooking(req'[p]))
       => ( /\ validShape(req'[p].row)
            /\ req'[p].row.start_time >= now - PastToleranceSeconds )]_vars

\* C9: a request that is answered with a rejection leaves the appointments
\* and the blocked slots as they were; none of its steps writes a row unless
\* it is the step that ends the request with acceptance.
C9_RejectionLeavesStorageUnchanged ==
  [][\A p \in Callers :
       ( /\ req'[p] # req[p]
         /\ ~(req'[p].pc = "done" /\ accepted(req'[p].resp)) )
       => (appointments' = appointments /\ blocked_slots' = blocked_slots)]_vars

\* A caller was refused with 409 while the table holds a row
C9_Witness ==
  \E p \in Callers :
    /\ req[p].pc = "done"
    /\ req[p].resp.status = HTTP_CONFLICT
    /\ Len(appointments) > 0

cancelledAtMatchesStatus(row) ==
  (row.cancelled_at # NULL) <=> (row.status = "cancelled")

\* C10: every stored appointment has a cancellation time if and only if its
\* status is cancelled, and every update of a stored appointment either is
\* refused and leaves the row as it was, or leaves a row of which the same
\* holds.
C10_CancelledAtIffCancelled ==
  \A i \in DOMAIN appointments :
    /\ cancelledAtMatchesStatus(appointments[i])
    /\ \A s \in AppointmentStatus \cup {"unset"}, c \in {"unset", "null", "now"} :
         LET r == update_result(i, s, c)
         IN  /\ cancelledAtMatchesStatus(r.row)
             /\ r.sqlstate # "" => r.row = appointments[i]

\* A cancelled row carries its cancellation time; setting it back to
\* confirmed clears the time, and clearing the time alone is refused
C10_Witness ==
  \E i \in DOMAIN appointments :
    /\ appointments[i].status = "cancelled"
    /\ appointments[i].cancelled_at # NULL
    /\ update_result(i, "confirmed", "unset").sqlstate = ""
    /\ update_result(i, "confirmed", "unset").row.cancelled_at = NULL
    /\ update_result(i, "unset", "null").sqlstate # ""

\* C11: the row an INSERT stores carries the token the server generated,
\* whatever token the client supplied, and in every state no two stored rows
\* carry the same booking token.
C11_ServerTokenUnique ==
  [][ /\ Len(booking_token') > Len(booking_token)
        => booking_token'[Len(booking_token')] = tokenInsert'.generated
      /\ \A i, j \in DOMAIN booking_token' :
           i # j => booking_token'[i] # booking_token'[j] ]_vars

\* An INSERT that supplied the token of a stored row was accepted, and the
\* new row carries the generated token instead
C11_Witness ==
  /\ Len(booking_token) = 2
  /\ tokenInsert.sqlstate = ""
  /\ tokenInsert.supplied = booking_token[1]
  /\ tokenInsert.generated = booking_token[2]
  /\ booking_token[2] # booking_token[1]

----------------------------------------------------------------------------
\* Vocabulary of the calculator claims: the call that returned, its target
\* date as a calendar date, and the daily window and breaks on that date

returned == slotsCall.pc = "returned"

calendarDate == slotsCall.date - (slotsCall.date % SecondsPerDay)

\* hh:mm of the target date's calendar date
onTargetDate(timeStr) ==
  calendarDate + parseTimeString(timeStr)[1] * SecondsPerHour
               + parseTimeString(timeStr)[2] * SecondsPerMinute

dayStart == onTargetDate(slotsCall.business.available_hours.start)
dayEnd == onTargetDate(slotsCall.business.available_hours.end)
slotSeconds == slotsCall.business.slot_duration_minutes * SecondsPerMinute

weekdayOfTargetDate ==
  CASE (calendarDate \div SecondsPerDay) % 7 = 0 -> "sunday"
    [] (calendarDate \div SecondsPerDay) % 7 = 1 -> "monday"
    [] (calendarDate \div SecondsPerDay) % 7 = 2 -> "tuesday"
    [] (calendarDate \div SecondsPerDay) % 7 = 3 -> "wednesday"
    [] (calendarDate \div SecondsPerDay) % 7 = 4 -> "thursday"
    [] (calendarDate \div SecondsPerDay) % 7 = 5 -> "friday"
    [] OTHER -> "saturday"

minBookingInstant ==
  slotsCall.now + slotsCall.business.min_advance_booking_minutes * SecondsPerMinute
maxBookingInstant ==
  slotsCall.now + slotsCall.business.max_advance_booking_days * SecondsPerDay

overlapsBreak(start, end) ==
  \E j \in DOMAIN slotsCall.business.break_times :
    overlaps(start, end, onTargetDate(slotsCall.business.break_times[j].start),
             onTargetDate(slotsCall.business.break_times[j].end))

overlapsActiveAppointment(start, end) ==
  \E j \in DOMAIN slotsCall.existingAppointments :
    /\ active(slotsCall.existingAppointments[j])
    /\ overlaps(start, end, slotsCall.existingAppointments[j].start_time,
                slotsCall.existingAppointments[j].end_time)

overlapsBlockedSlot(start, end) ==
  \E j \in DOMAIN slotsCall.blockedSlots :
    overlaps(start, end, slotsCall.blockedSlots[j].start_time,
             slotsCall.blockedSlots[j].end_time)

\* C12: no returned slot overlaps a break of the schedule on the target date.
C12_NoSlotInBreak ==
  returned =>
    \A i \in DOMAIN slotsCall.slots :
      ~overlapsBreak(slotsCall.slots[i].start, slotsCall.slots[i].end)

\* C13: no returned slot overlaps a pending or confirmed appointment of the
\* input list, nor a blocked slot of the input list.
C13_NoSlotOnAppointmentOrBlock ==
  returned =>
    \A i \in DOMAIN slotsCall.slots :
      /\ ~overlapsActiveAppointment(slotsCall.slots[i].start, slotsCall.slots[i].end)
      /\ ~overlapsBlockedSlot(slotsCall.slots[i].start, slotsCall.slots[i].end)

\* Slots were returned for a day with a pending appointment and a blocked slot
C13_Witness ==
  /\ returned
  /\ Len(slotsCall.slots) > 0
  /\ Len(slotsCall.blockedSlots) > 0
  /\ \E j \in DOMAIN slotsCall.existingAppointments :
       /\ slotsCall.existingAppointments[j].status = "pending"
       /\ slotsCall.existingAppointments[j].start_time >= dayStart
       /\ slotsCall.existingAppointments[j].end_time <= dayEnd

\* C14: when the weekday of the target date is not among the available days,
\* the result is empty.
C14_ClosedDayIsEmpty ==
  (returned /\ weekdayOfTargetDate \notin slotsCall.business.available_days)
    => slotsCall.slots = <<>>

\* A Sunday asked of a Monday-to-Friday schedule whose booking window covers
\* the whole day
C14_Witness ==
  /\ returned
  /\ weekdayOfTargetDate = "sunday"
  /\ slotsCall.business.available_days = WeekDays
  /\ minBookingInstant <= dayStart
  /\ maxBookingInstant >= dayEnd
  /\ slotsCall.slots = <<>>

\* C15: every returned slot starts no earlier than now + minAdvanceBookingMinutes
\* and no later than now + maxAdvanceBookingDays.
C15_SlotsInsideBookingWindow ==
  returned =>
    \A i \in DOMAIN slotsCall.slots :
      /\ slotsCall.slots[i].start >= minBookingInstant
      /\ slotsCall.slots[i].start <= maxBookingInstant

\* One result holds a slot that starts exactly at the lower bound and a slot
\* that starts exactly at the upper bound
C15_Witness ==
  /\ returned
  /\ \E i \in DOMAIN slotsCall.slots : slotsCall.slots[i].start = minBookingInstant
  /\ \E i \in DOMAIN slotsCall.slots : slotsCall.slots[i].start = maxBookingInstant

\* C16: every returned slot lasts exactly slotDurationMinutes, starts a whole
\* number of slot durations after dayStart, and lies inside the daily window.
C16_SlotsOnGridInsideWindow ==
  returned =>
    \A i \in DOMAIN slotsCall.slots :
      /\ slotsCall.slots[i].end - slotsCall.slots[i].start = slotSeconds
      /\ slotsCall.slots[i].start >= dayStart
      /\ (slotsCall.slots[i].start - dayStart) % slotSeconds = 0
      /\ slotsCall.slots[i].end <= dayEnd

\* C17: every returned slot ends after now.
C17_NoElapsedSlot ==
  returned => \A i \in DOMAIN slotsCall.slots : slotsCall.slots[i].end > slotsCall.now

\* Slots were returned although a candidate of the day ends exactly at now
C17_Witness ==
  /\ returned
  /\ Len(slotsCall.slots) > 0
  /\ slotsCall.now > dayStart
  /\ slotsCall.now <= dayEnd
  /\ (slotsCall.now - dayStart) % slotSeconds = 0

\* The candidates of the grid that no filter discards
survivors ==
  IF weekdayOfTargetDate \notin slotsCall.business.available_days \/ dayEnd <= dayStart
    THEN {}
    ELSE { c \in { [start |-> dayStart + k * slotSeconds,
                    end |-> dayStart + (k + 1) * slotSeconds] :
                    k \in 0..((dayEnd - dayStart) \div slotSeconds) } :
           /\ c.end <= dayEnd
           /\ ~(c.end <= slotsCall.now)
           /\ ~(c.start < minBookingInstant)
           /\ ~(c.start > maxBookingInstant)
           /\ ~overlapsBreak(c.start, c.end)
           /\ ~overlapsActiveAppointment(c.start, c.end)
           /\ ~overlapsBlockedSlot(c.start, c.end) }

\* Monday to Friday 09:00-17:00, 60-minute slots, no minimum, 90 days, asked
\* on Monday 08:00 for that Monday, nothing blocked
isExample(breaks, booked) ==
  /\ slotsCall.business = [DefaultBusiness EXCEPT !.slot_duration_minutes = 60,
                                                  !.break_times = breaks]
  /\ calendarDate = T(1, 0, 0, 0)
  /\ slotsCall.now = T(1, 8, 0, 0)
  /\ slotsCall.existingAppointments = booked
  /\ slotsCall.blockedSlots = <<>>

startHours == { getHours(slotsCall.slots[i].start) : i \in DOMAIN slotsCall.slots }

\* C18: the result lists, in strictly increasing order of start, exactly the
\* candidates of the grid that no filter discards; the three examples give
\* the 8 slots 09:00..16:00, the 7 slots outside the 12:00-13:00 break, and
\* every slot but 10:00-11:00.
C18_ExactlyTheSurvivors ==
  returned =>
    /\ { slotsCall.slots[i] : i \in DOMAIN slotsCall.slots } = survivors
    /\ \A i, j \in DOMAIN slotsCall.slots :
         i < j => slotsCall.slots[i].start < slotsCall.slots[j].start
    /\ isExample(<<>>, <<>>) =>
         (Len(slotsCall.slots) = 8 /\ startHours = 9..16)
    /\ isExample(<<[start |-> Text1200, end |-> Text1300]>>, <<>>) =>
         (Len(slotsCall.slots) = 7 /\ startHours = (9..16) \ {12})
    /\ isExample(<<>>, <<[start_time |-> T(1, 10, 0, 0), end_time |-> T(1, 11, 0, 0),
                         status |-> "confirmed"]>>) =>
         (Len(slotsCall.slots) = 7 /\ startHours = (9..16) \ {10})

----------------------------------------------------------------------------
\* Vocabulary of the overlap claims

compared == overlapCall.pc = "compared"

\* The half-open predicate on the pair of the call
halfOpenVerdict ==
  overlaps(overlapCall.start1, overlapCall.end1, overlapCall.start2, overlapCall.end2)

\* C19: hasTimeOverlap(a1, a2, b1, b2) is a1 < b2 and b1 < a2 for all
\* instants: it is symmetric, true of a non-empty interval and itself, and
\* false of back-to-back intervals.
C19_HasTimeOverlapIsHalfOpen ==
  compared =>
    LET c == overlapCall
    IN  /\ c.hasTimeOverlap = (c.start1 < c.end2 /\ c.start2 < c.end1)
        /\ c.hasTimeOverlap = hasTimeOverlap(c.start2, c.end2, c.start1, c.end1)
        /\ (c.start1 = c.start2 /\ c.end1 = c.end2 /\ c.start1 < c.end1)
             => c.hasTimeOverlap
        /\ c.end1 = c.start2 => ~c.hasTimeOverlap

\* Two non-empty back-to-back intervals were compared and found apart
C19_Witness ==
  /\ compared
  /\ overlapCall.start1 < overlapCall.end1
  /\ overlapCall.end1 = overlapCall.start2
  /\ overlapCall.start2 < overlapCall.end2
  /\ ~overlapCall.hasTimeOverlap

\* C20: on every pair of non-empty intervals, the calculator's hasTimeOverlap,
\* the condition of the database guard, and the client-side isSlotBooked and
\* isSlotDuringBreak all give the verdict of the half-open predicate.
C20_AllOverlapTestsAgree ==
  ( /\ compared
    /\ overlapCall.start1 < overlapCall.end1
    /\ overlapCall.start2 < overlapCall.end2 )
  => /\ overlapCall.hasTimeOverlap = halfOpenVerdict
     /\ overlapCall.prevent_appointment_conflicts = halfOpenVerdict
     /\ overlapCall.isSlotBooked = halfOpenVerdict
     /\ overlapCall.isSlotDuringBreak = halfOpenVerdict

----------------------------------------------------------------------------
\* The loop of generateAvailableSlots, one iteration a step, on the rows the
\* businesses table can hold

InitLoop ==
  /\ appointments = <<>>
  /\ blocked_slots = <<>>
  /\ now = ClockInstants[1]
  /\ req = [p \in Callers |-> Idle]
  /\ booking_token = <<>>
  /\ tokenInsert = NoTokenInsert
  /\ slotsCall = NoSlotsCall
  /\ overlapCall = NoOverlapCall
  /\ businesses = <<>>
  /\ businessCall = [session \in Sessions |-> NoBusinessCall]
  /\ validation = NoValidation
  /\ \E business \in Schedules, slot_duration_minutes \in SlotDurations,
        date \in TargetDates :
       /\ valid_slot_duration(slot_duration_minutes)
       /\ LET startHM == parseTimeString(business.available_hours.start)
              endHM == parseTimeString(business.available_hours.end)
          IN  whileLoop =
                [pc |-> "while",
                 currentSlotStart |-> setMinutes(setHours(date, startHM[1]), startHM[2]),
                 dayEndTime |-> setMinutes(setHours(date, endHM[1]), endHM[2]),
                 slotDuration |-> slot_duration_minutes]

\* One pass through the body of the loop: whatever the filters say, the
\* cursor moves by the slot duration
LoopIteration ==
  /\ whileLoop.pc = "while"
  /\ isBefore(whileLoop.currentSlotStart, whileLoop.dayEndTime)
  /\ whileLoop' = [whileLoop EXCEPT
       !.currentSlotStart = addMinutes(whileLoop.currentSlotStart,
                                       whileLoop.slotDuration)]
  /\ UNCHANGED <<appointments, blocked_slots, now, req, booking_token, tokenInsert,
                 slotsCall, overlapCall, businesses, businessCall, validation>>

\* The loop condition fails and the function returns
LoopExit ==
  /\ whileLoop.pc = "while"
  /\ ~isBefore(whileLoop.currentSlotStart, whileLoop.dayEndTime)
  /\ whileLoop' = [whileLoop EXCEPT !.pc = "returned"]
  /\ UNCHANGED <<appointments, blocked_slots, now, req, booking_token, tokenInsert,
                 slotsCall, overlapCall, businesses, businessCall, validation>>

NextLoop == LoopIteration \/ LoopExit

\* A call that has started keeps running: nothing else runs on its thread
SpecLoop == InitLoop /\ [][NextLoop]_vars /\ WF_vars(NextLoop)

\* C22: on every schedule the businesses table can hold, the candidate loop
\* comes to its end: the cursor reaches or passes the end of the day and the
\* call returns.
C22_LoopTerminates == <>(whileLoop.pc = "returned")

\* The loop ran and left the cursor past the end of the day
C22_Witness ==
  /\ whileLoop.pc = "returned"
  /\ whileLoop.slotDuration = 45
  /\ whileLoop.currentSlotStart > whileLoop.dayEndTime

----------------------------------------------------------------------------
\* The businesses table under the configuration path and the business service

otherVars ==
  <<appointments, blocked_slots, now, req, booking_token, tokenInsert, slotsCall,
    overlapCall, whileLoop, validation>>

\* The hook loads the user's business when the page opens
loadAvailability(session) ==
  /\ businessCall[session].pc = "idle"
  /\ fetchUserBusiness(userOf(session)) # NULL
  /\ businessCall' = [businessCall EXCEPT
       ![session].businessId = fetchUserBusiness(userOf(session))]
  /\ UNCHANGED <<businesses, otherVars>>

\* saveAvailability: validation, then updateBusiness for a session that holds
\* a business id, or createBusiness up to the answer of its look-up
saveAvailability(session, newAvailability) ==
  /\ businessCall[session].pc = "idle"
  /\ IF ~validateBusinessAvailability(newAvailability)
       THEN /\ businessCall' = [businessCall EXCEPT ![session].outcome = "invalid"]
            /\ UNCHANGED businesses
       ELSE IF businessCall[session].businessId # NULL
         THEN LET id == businessCall[session].businessId
                  businessData == businessAvailabilityToDb(newAvailability, userOf(session))
              IN  /\ businesses' =
                       IF businesses[id].owner_id = userOf(session)
                         THEN [businesses EXCEPT ![id] = businessData]
                         ELSE businesses
                  /\ businessCall' = [businessCall EXCEPT ![session].outcome = "updated"]
         ELSE /\ businessCall' = [businessCall EXCEPT
                   ![session].pc = "createBusiness",
                   ![session].newAvailability = newAvailability,
                   ![session].existing = fetchUserBusiness(userOf(session)),
                   ![session].outcome = ""]
              /\ UNCHANGED businesses
  /\ UNCHANGED otherVars

\* createBusiness after its look-up: it throws for an existing business,
\* else inserts the row, and the hook keeps the new id
createBusiness(session) ==
  /\ businessCall[session].pc = "createBusiness"
  /\ IF businessCall[session].existing # NULL
       THEN /\ businessCall' = [businessCall EXCEPT
                 ![session].pc = "idle",
                 ![session].newAvailability = NoAvailability,
                 ![session].existing = NULL,
                 ![session].outcome = "exists"]
            /\ UNCHANGED businesses
       ELSE /\ Len(businesses) < MaxBusinesses
            /\ businesses' = Append(businesses,
                 businessAvailabilityToDb(businessCall[session].newAvailability,
                                          userOf(session)))
            /\ businessCall' = [businessCall EXCEPT
                 ![session].pc = "idle",
                 ![session].businessId = Len(businesses) + 1,
                 ![session].newAvailability = NoAvailability,
                 ![session].existing = NULL,
                 ![session].outcome = "created"]
  /\ UNCHANGED otherVars

deactivateBusiness(session, businessId) ==
  /\ businessId \in DOMAIN businesses
  /\ businesses[businessId].owner_id = userOf(session)
  /\ businesses' = [businesses EXCEPT ![businessId].is_active = FALSE]
  /\ UNCHANGED <<businessCall, otherVars>>

reactivateBusiness(session, businessId) ==
  /\ businessId \in DOMAIN businesses
  /\ businesses[businessId].owner_id = userOf(session)
  /\ businesses' = [businesses EXCEPT ![businessId].is_active = TRUE]
  /\ UNCHANGED <<businessCall, otherVars>>

NextBusiness ==
  \/ \E session \in Sessions : loadAvailability(session)
  \/ \E session \in Sessions, newAvailability \in Availabilities :
       saveAvailability(session, newAvailability)
  \/ \E session \in Sessions : createBusiness(session)
  \/ \E session \in Sessions, businessId \in 1..MaxBusinesses :
       deactivateBusiness(session, businessId)
  \/ \E session \in Sessions, businessId \in 1..MaxBusinesses :
       reactivateBusiness(session, businessId)

SpecBusiness == Init /\ [][NextBusiness]_vars

minutesOfDay(timeStr) == parseTimeString(timeStr)[1] * 60 + parseTimeString(timeStr)[2]

breaksOverlap(break_times) ==
  \E i \in DOMAIN break_times, j \in DOMAIN break_times :
    /\ i < j
    /\ minutesOfDay(break_times[i].start) < minutesOfDay(break_times[j].end)
    /\ minutesOfDay(break_times[j].start) < minutesOfDay(break_times[i].end)

breakOutsideHours(business) ==
  \E i \in DOMAIN business.break_times :
    \/ minutesOfDay(business.break_times[i].start) < minutesOfDay(business.available_hours.start)
    \/ minutesOfDay(business.break_times[i].end) > minutesOfDay(business.available_hours.end)

\* C24: every row of the businesses table that the configuration path stored
\* has available hours that start before they end, every break inside the
\* available hours, and no two breaks that overlap.
C24_StoredScheduleWellFormed ==
  \A id \in DOMAIN businesses :
    /\ minutesOfDay(businesses[id].available_hours.start)
         < minutesOfDay(businesses[id].available_hours.end)
    /\ ~breakOutsideHours(businesses[id])
    /\ ~breaksOverlap(businesses[id].break_times)

\* C27: no user owns more than one active business.
C27_OneActiveBusinessPerUser ==
  \A session \in Sessions : Cardinality(activeBusinessesOf(userOf(session))) <= 1

----------------------------------------------------------------------------
\* One proposal put to the booking validation

InitValidate ==
  /\ appointments = <<>>
  /\ blocked_slots = <<>>
  /\ req = [p \in Callers |-> Idle]
  /\ booking_token = <<>>
  /\ tokenInsert = NoTokenInsert
  /\ slotsCall = NoSlotsCall
  /\ overlapCall = NoOverlapCall
  /\ whileLoop = NoLoop
  /\ businesses = <<>>
  /\ businessCall = [session \in Sessions |-> NoBusinessCall]
  /\ \E i \in DOMAIN ClockInstants : now = ClockInstants[i]
  /\ \E seconds \in IntervalSeconds, duration_minutes \in Durations :
       validation = [pc |-> "called", start_time |-> HM(10, 0),
                     end_time |-> HM(10, 0) + seconds,
                     duration_minutes |-> duration_minutes, success |-> FALSE]

safeValidate ==
  /\ validation.pc = "called"
  /\ validation' = [validation EXCEPT
       !.pc = "returned",
       !.success = safeValidateCreateAppointment(
                     [start_time |-> validation.start_time,
                      end_time |-> validation.end_time,
                      duration_minutes |-> validation.duration_minutes])]
  /\ UNCHANGED <<appointments, blocked_slots, now, req, booking_token, tokenInsert,
                 slotsCall, overlapCall, whileLoop, businesses, businessCall>>

NextValidate == safeValidate

SpecValidate == InitValidate /\ [][NextValidate]_vars

\* C26: every proposal the booking validation accepts has an interval, end
\* minus start, of at least one minute and at most 1440 minutes, whatever
\* duration_minutes it carries.
C26_AcceptedIntervalWithinBounds ==
  (validation.pc = "returned" /\ validation.success) =>
    /\ validation.end_time - validation.start_time >= MinDurationMinutes * SecondsPerMinute
    /\ validation.end_time - validation.start_time <= MaxDurationMinutes * SecondsPerMinute

----------------------------------------------------------------------------
\* Malformed schedules, inert appointments and repeated calls

malformed(business) ==
  \/ minutesOfDay(business.available_hours.start) >= minutesOfDay(business.available_hours.end)
  \/ business.slot_duration_minutes <= 0
  \/ breaksOverlap(business.break_times)

\* C21: a call with a malformed schedule (hours that start at or after their
\* end, a slot duration that is not positive, or breaks that overlap each
\* other) ends by signalling a configuration error, never by returning a list.
C21_MalformedScheduleSignalsError ==
  (slotsCall.pc \notin {"idle", "called"} /\ malformed(slotsCall.business))
    => slotsCall.pc = "threw"

\* Appointments that are neither pending nor confirmed
InertAppointments ==
  { [start_time |-> T(1, 9, 0, 0), end_time |-> T(1, 10, 0, 0), status |-> "no_show"],
    [start_time |-> T(1, 10, 0, 0), end_time |-> T(1, 11, 0, 0), status |-> "completed"],
    [start_time |-> T(1, 15, 0, 0), end_time |-> T(1, 16, 0, 0), status |-> "cancelled"] }

slotsFor(appointmentList) ==
  generateAvailableSlots(slotsCall.business, slotsCall.date, appointmentList,
                         slotsCall.blockedSlots, slotsCall.now)

\* C23: the returned list is the list returned for the input without its
\* appointments that are neither pending nor confirmed (the filter of
\* GET /api/slots), and for the input with one more such appointment.
C23_InertAppointmentsIrrelevant ==
  returned =>
    /\ slotsCall.slots = slotsFor(activeAppointments(slotsCall.existingAppointments))
    /\ \A apt \in InertAppointments :
         slotsCall.slots = slotsFor(slotsCall.existingAppointments \o <<apt>>)

\* A slot was returned on top of a completed appointment of the input
C23_Witness ==
  /\ returned
  /\ \E i \in DOMAIN slotsCall.slots, j \in DOMAIN slotsCall.existingAppointments :
       /\ slotsCall.existingAppointments[j].status = "completed"
       /\ overlaps(slotsCall.slots[i].start, slotsCall.slots[i].end,
                   slotsCall.existingAppointments[j].start_time,
                   slotsCall.existingAppointments[j].end_time)

----------------------------------------------------------------------------
\* The slot list, the booking endpoint and updates, on the stored rows

\* The dates asked of GET /api/slots: the day the stored rows are on
SlotDates == {T(0, 0, 0, 0)}

\* The proposal a client submits for an offered slot
bodyOf(businessId, slot) ==
  [business_id |-> businessId, start_time |-> slot.start, end_time |-> slot.end,
   duration_minutes |-> (slot.end - slot.start) \div SecondsPerMinute]

\* SQLSTATE of the INSERT the booking endpoint would make now, "" when the
\* row is stored
insert_result(body) ==
  LET new == insert_values(body, "confirmed")
      raised == prevent_appointment_conflicts(new, 0)
  IN  IF raised # "" THEN raised
      ELSE constraint_error(set_cancelled_at(new, ""), Len(appointments) + 1)

\* C28: with no statement under way, every slot GET /api/slots offers is
\* accepted when it is submitted to the booking endpoint at once; a completed
\* appointment does not make an offered slot unbookable.
C28_OfferedSlotIsBookable ==
  quiet =>
    \A businessId \in Businesses, date \in SlotDates :
      \A i \in DOMAIN GET_slots(businessId, date) :
        LET body == bodyOf(businessId, GET_slots(businessId, date)[i])
        IN  /\ safeValidateCreateAppointment(body)
            /\ insert_result(body) = ""

\* The slots the schedule of the business alone allows on the day of an
\* instant: available weekday, inside the hours, outside the breaks, inside
\* the booking window
scheduleSlots(businessId, instant) ==
  generateAvailableSlots(getBusinessById(businessId), startOfDay(instant), <<>>, <<>>, now)

respectsSchedule(row) ==
  \E i \in DOMAIN scheduleSlots(row.business_id, row.start_time) :
    /\ scheduleSlots(row.business_id, row.start_time)[i].start = row.start_time
    /\ scheduleSlots(row.business_id, row.start_time)[i].end = row.end_time

\* C29: an appointment that the booking endpoint commits is, at the moment of
\* the commit, a slot of its business's schedule: on an available weekday,
\* inside the available hours, outside the breaks, inside the booking window.
C29_CommittedRespectsSchedule ==
  [][\A p \in Callers :
       (completes(p) /\ req[p].route = "POST" /\ accepted(req'[p].resp))
       => respectsSchedule(req[p].row)]_vars

\* C30: with no statement under way, an update of a pending or confirmed
\* appointment that leaves its business and interval alone (to confirmed, to
\* completed, or of other columns only) is not refused with a conflict, and
\* an update that sets its status to cancelled is stored.
C30_UpdateInPlaceNeverConflicts ==
  quiet =>
    \A id \in DOMAIN appointments :
      active(appointments[id]) =>
        /\ \A setStatus \in {"confirmed", "completed", "unset"} :
             update_result(id, setStatus, "unset").sqlstate \notin {"P0001", "P0002"}
        /\ update_result(id, "cancelled", "unset").sqlstate = ""
====
